---- MODULE Spec2Model ----
(***************************************************************************)
(* Model of python/model_report.py: the ModelReport and ADMReport classes. *)
(* An instance is built once from flat input arrays (the constructor) and  *)
(* is then queried (_apply_query, generate_heatmap_df, the show_* calls).  *)
(*                                                                         *)
(* Encoding of values:                                                     *)
(*   - a pandas DataFrame is a sequence of rows; a row is a function from  *)
(*     the column label (the string the source uses) to the cell;          *)
(*   - model names and model IDs are numbers (n stands for 'model<n>',     *)
(*     'i<n>'), so that the sorted order of a pivot is defined;            *)
(*   - a timestamp is a number of ticks, TicksPerDay ticks to a calendar   *)
(*     day, so .date() is integer division;                                *)
(*   - a float is an exact fraction [num, den] in lowest terms;            *)
(*   - a nullable cell is <<>> (NaN) or <<v>>.                             *)
(***************************************************************************)
EXTENDS Integers, Sequences, FiniteSets, TLC

VARIABLES
    cls,            \* class being instantiated: "ModelReport" or "ADMReport"
    pc,             \* "new", "constructed", or "raised" (constructor raised)
    attrs,          \* names of the instance attributes assigned so far
    modelID, modelName, positives, responses, modelAUC, modelSnapshot,
    predModelID, predName, predPerformance, binSymbol, binIndex, entryType,
    predictorType, predSnapshot, binPositives, binResponses,
    dfModel,        \* self.dfModel
    latestModels,   \* self.latestModels
    latestPredModel,\* self.latestPredModel
    call,           \* the last method called on the instance
    args,           \* its arguments
    err,            \* the exception it ended with, or "none"
    ret,            \* what it returned
    printed,        \* what it printed
    plotted         \* what it handed to the plotting library

modelArgs == <<modelID, modelName, positives, responses, modelAUC, modelSnapshot>>
predArgs == <<predModelID, predName, predPerformance, binSymbol, binIndex, entryType,
              predictorType, predSnapshot, binPositives, binResponses>>
tables == <<dfModel, latestModels, latestPredModel>>
instance == <<cls, pc, attrs, modelArgs, predArgs, tables>>
lastCall == <<call, args, err, ret, printed, plotted>>
vars == <<instance, lastCall>>

----------------------------------------------------------------------------
(* Bounds of the model. *)

MaxRows == 3            \* rows of the model arrays
NumNames == 2           \* distinct model names / model IDs
MaxTime == 2            \* timestamps are 0..MaxTime
TicksPerDay == 2        \* timestamps per calendar day
MaxPositives == 1
MaxResponses == 2
MaxLookback == 3        \* lookback is 0..MaxLookback
RateRows == 2           \* rows of the model arrays where the rates vary
PredModelRows == 2      \* rows of the model arrays where the predictors vary
MaxPredRows == 2        \* rows of the predictor arrays
QueryRows == 2          \* rows of the model arrays where the queries vary
HeatRows == 2           \* rows of the model arrays where the heatmap varies

----------------------------------------------------------------------------
(* Generic helpers. *)

Range(s) == {s[i] : i \in DOMAIN s}

SetMax(S) == CHOOSE x \in S : \A y \in S : y <= x

SetMin(S) == CHOOSE x \in S : \A y \in S : x <= y

Abs(n) == IF n < 0 THEN -n ELSE n

RECURSIVE GCD(_, _)
GCD(a, b) == IF b = 0 THEN a ELSE GCD(b, a % b)

\* the float n/d (d > 0) as an exact fraction in lowest terms
Frac(n, d) == LET g == GCD(Abs(n), d)
              IN  [num |-> n \div g, den |-> d \div g]

NaN == <<>>

Val(v) == <<v>>

\* the subsequence of s at the positions satisfying Keep, in order
RECURSIVE SelectIdx(_, _, _)
SelectIdx(s, Keep(_), i) ==
    IF i > Len(s) THEN <<>>
    ELSE (IF Keep(i) THEN <<s[i]>> ELSE <<>>) \o SelectIdx(s, Keep, i + 1)

\* the elements of a finite set of numbers in ascending order
RECURSIVE SortedSeq(_)
SortedSeq(S) == IF S = {} THEN <<>>
                ELSE LET m == SetMin(S) IN <<m>> \o SortedSeq(S \ {m})

Permutations1(n) == {p \in [1..n -> 1..n] : \A i, j \in 1..n : i # j => p[i] # p[j]}

----------------------------------------------------------------------------
(* ModelReport *)

cols == <<"model ID", "model name", "positives", "responses",
          "model performance", "model snapshot">>

\* numpy's a.shape[0]
shape0(a) == Len(a)

\* _check_data_shape with the last comparison of the chain left out
_check_data_shape_short ==
    ~ (/\ shape0(modelID) = shape0(modelName)
       /\ shape0(modelName) = shape0(positives)
       /\ shape0(positives) = shape0(responses)
       /\ shape0(responses) = shape0(modelAUC))

\* TRUE when _check_data_shape raises TypeError
_check_data_shape ==
    ~ (/\ shape0(modelID) = shape0(modelName)
       /\ shape0(modelName) = shape0(positives)
       /\ shape0(positives) = shape0(responses)
       /\ shape0(responses) = shape0(modelAUC)
       /\ shape0(modelAUC) = shape0(modelSnapshot))

\* the rate as a plain ratio, the factor 100.0 left out
success_rate_ratio(pos, total) ==
    IF total > 0 THEN Frac(pos, total) ELSE Frac(0, 1)

\* one cell of the column _calculate_success_rate adds
success_rate(pos, total) ==
    IF total > 0 THEN Frac(pos * 100, total) ELSE Frac(0, 1)

_calculate_success_rate(df, pos, total, label) ==
    [i \in DOMAIN df |-> df[i] @@ (label :> success_rate(df[i][pos], df[i][total]))]

\* pd.DataFrame.from_dict raises ValueError on arrays of unequal length
from_dict_raises ==
    \E i, j \in 1..6 : shape0(modelArgs[i]) # shape0(modelArgs[j])

\* pd.DataFrame.from_dict(dict(zip(self.cols, [...])))
from_dict ==
    [i \in 1..Len(modelID) |->
        (cols[1] :> modelID[i]) @@ (cols[2] :> modelName[i]) @@
        (cols[3] :> positives[i]) @@ (cols[4] :> responses[i]) @@
        (cols[5] :> modelAUC[i]) @@ (cols[6] :> modelSnapshot[i])]

\* astype(str) and to_datetime leave the encoded values as they are
_set_proper_type(df) == df

\* df.sort_values(by, ascending=False)
sort_values_descending(df, by) ==
    {[i \in DOMAIN df |-> df[p[i]]] : p \in
        {q \in Permutations1(Len(df)) :
            \A i \in 1..(Len(df) - 1) : df[q[i]][by] >= df[q[i + 1]][by]}}

\* df.sort_values(by): the default sort (kind='quicksort') is not stable, so
\* every ordering of the rows that is ascending in the key is a possible result
sort_values(df, by) ==
    {[i \in DOMAIN df |-> df[p[i]]] : p \in
        {q \in Permutations1(Len(df)) :
            \A i \in 1..(Len(df) - 1) : df[q[i]][by] <= df[q[i + 1]][by]}}

\* groupby(keys).head(1) in the place of tail(1): the first row of every group
groupby_head1(df, key) ==
    SelectIdx(df, LAMBDA i : \A j \in 1..(i - 1) : df[j][key] # df[i][key], 1)

\* df.groupby(keys).tail(1): the last row of every group, in the order of df
groupby_tail1(df, key) ==
    SelectIdx(df, LAMBDA i : \A j \in (i + 1)..Len(df) : df[j][key] # df[i][key], 1)

\* the set of possible (df_all, df_latest) results of _create_model_df
_create_model_df ==
    LET df_all == _set_proper_type(
                     _calculate_success_rate(from_dict, "positives", "responses",
                                             "success rate (%)"))
    IN  {<<df_all, groupby_tail1(s, "model name")>> :
            s \in sort_values(df_all, "model snapshot")}

modelAttrs == {"modelID", "modelName", "positives", "responses", "modelAUC",
               "modelSnapshot", "cols"}

\* ModelReport.__init__
ModelReport_init ==
    /\ pc = "new"
    /\ cls = "ModelReport"
    /\ call' = "__init__"
    /\ args' = <<>>
    /\ ret' = <<>>
    /\ printed' = <<>>
    /\ plotted' = <<>>
    /\ IF _check_data_shape
       THEN /\ pc' = "raised"
            /\ err' = "TypeError"
            /\ attrs' = modelAttrs
            /\ UNCHANGED tables
       ELSE IF from_dict_raises
       THEN /\ pc' = "raised"
            /\ err' = "ValueError"
            /\ attrs' = modelAttrs
            /\ UNCHANGED tables
       ELSE /\ \E r \in _create_model_df :
                 /\ dfModel' = r[1]
                 /\ latestModels' = r[2]
            /\ pc' = "constructed"
            /\ err' = "none"
            /\ attrs' = modelAttrs \cup {"dfModel", "latestModels"}
            /\ UNCHANGED latestPredModel
    /\ UNCHANGED <<cls, modelArgs, predArgs>>

----------------------------------------------------------------------------
(* ADMReport *)

predCols == <<"model ID", "predictor name", "predictor performance", "bin symbol",
              "bin index", "entry type", "predictor type", "bin positives",
              "bin responses", "predictor snapshot">>

\* TRUE when _check_pred_data_shape raises TypeError
_check_pred_data_shape ==
    ~ (/\ shape0(predModelID) = shape0(predName)
       /\ shape0(predName) = shape0(predPerformance)
       /\ shape0(predPerformance) = shape0(binSymbol)
       /\ shape0(binSymbol) = shape0(binIndex)
       /\ shape0(binIndex) = shape0(entryType)
       /\ shape0(entryType) = shape0(predictorType)
       /\ shape0(predictorType) = shape0(predSnapshot)
       /\ shape0(predSnapshot) = shape0(binPositives)
       /\ shape0(binPositives) = shape0(binResponses))

\* pd.DataFrame.from_dict(dict(zip(self.predCols, [...])))
pred_from_dict ==
    [i \in 1..Len(predModelID) |->
        (predCols[1] :> predModelID[i]) @@ (predCols[2] :> predName[i]) @@
        (predCols[3] :> predPerformance[i]) @@ (predCols[4] :> binSymbol[i]) @@
        (predCols[5] :> binIndex[i]) @@ (predCols[6] :> entryType[i]) @@
        (predCols[7] :> predictorType[i]) @@ (predCols[8] :> binPositives[i]) @@
        (predCols[9] :> binResponses[i]) @@ (predCols[10] :> predSnapshot[i])]

\* df[df.groupby(keys)[col].transform(max) == df[col]]: the rows that carry the
\* maximum of col within their group (all of them when several do)
groupby_max_rows(df, keys, col) ==
    SelectIdx(df, LAMBDA i : \A j \in DOMAIN df :
                    (\A k \in keys : df[j][k] = df[i][k]) => df[j][col] <= df[i][col], 1)

\* merge(how='inner'): left rows without a match are dropped
RECURSIVE merge_inner(_, _, _, _)
merge_inner(left, right, on, rcols) ==
    IF left = <<>> THEN <<>>
    ELSE LET l == Head(left)
             m == SelectIdx(right, LAMBDA j : right[j][on] = l[on], 1)
         IN  [k \in DOMAIN m |-> l @@ [c \in rcols \ {on} |-> Val(m[k][c])]]
             \o merge_inner(Tail(left), right, on, rcols)

\* left.merge(right, on=on, how='left'): the rows of left in their order, each
\* joined with every matching row of right (in the order of right), or with
\* NaN in the columns of right (rcols) when none matches
RECURSIVE merge(_, _, _, _)
merge(left, right, on, rcols) ==
    IF left = <<>> THEN <<>>
    ELSE LET l == Head(left)
             m == SelectIdx(right, LAMBDA j : right[j][on] = l[on], 1)
         IN  (IF m = <<>>
              THEN << l @@ [c \in rcols \ {on} |-> NaN] >>
              ELSE [k \in DOMAIN m |-> l @@ [c \in rcols \ {on} |-> Val(m[k][c])]])
             \o merge(Tail(left), right, on, rcols)

\* df.drop(labels, axis=1)
drop(df, labels) == [i \in DOMAIN df |-> [c \in (DOMAIN df[i]) \ labels |-> df[i][c]]]

\* _create_pred_model_df, given self.dfModel
_create_pred_model_df(df_model) ==
    LET _df == _calculate_success_rate(
                   groupby_max_rows(pred_from_dict, {"model ID", "predictor name"},
                                    "predictor snapshot"),
                   "bin positives", "bin responses", "bin propensity")
    IN  drop(merge(df_model, _df, "model ID", Range(predCols) \cup {"bin propensity"}),
             {"model ID", "predictor snapshot"})

predAttrs == {"predModelID", "predName", "predPerformance", "binSymbol", "binIndex",
              "entryType", "predictorType", "predSnapshot", "binPositives",
              "binResponses"}

\* ADMReport.__init__
ADMReport_init ==
    /\ pc = "new"
    /\ cls = "ADMReport"
    /\ call' = "__init__"
    /\ args' = <<>>
    /\ ret' = <<>>
    /\ printed' = <<>>
    /\ plotted' = <<>>
    /\ IF _check_data_shape
       THEN /\ pc' = "raised"
            /\ err' = "TypeError"
            /\ attrs' = modelAttrs
            /\ UNCHANGED tables
       ELSE IF from_dict_raises
       THEN /\ pc' = "raised"
            /\ err' = "ValueError"
            /\ attrs' = modelAttrs
            /\ UNCHANGED tables
       ELSE \E r \in _create_model_df :
            /\ dfModel' = r[1]
            /\ latestModels' = r[2]
            /\ IF _check_pred_data_shape
               THEN /\ pc' = "raised"
                    /\ err' = "TypeError"
                    /\ attrs' = modelAttrs \cup {"dfModel", "latestModels"} \cup predAttrs
                    /\ UNCHANGED latestPredModel
               ELSE /\ latestPredModel' = _create_pred_model_df(r[1])
                    /\ pc' = "constructed"
                    /\ err' = "none"
                    /\ attrs' = modelAttrs \cup {"dfModel", "latestModels"} \cup predAttrs
                                  \cup {"predCols", "latestPredModel"}
    /\ UNCHANGED <<cls, modelArgs, predArgs>>

----------------------------------------------------------------------------
(* Queries *)

\* the columns of self.dfModel and of self.latestModels
modelColumns == Range(cols) \cup {"success rate (%)"}

\* a query is [type, items]: its Python type and, for a dict, its entries in
\* insertion order, each [key, val] with val = [type, items]
EmptyDict == [type |-> "dict", items |-> <<>>]

Raised(e) == [err |-> e, ret |-> <<>>, printed |-> <<>>]

Returned(v, out) == [err |-> "none", ret |-> <<v>>, printed |-> out]

\* _df[_df[col].isin(val)]
isin(df, col, val) == SelectIdx(df, LAMBDA i : df[i][col] \in Range(val), 1)

\* the loop of lines 162-163 over the entries of the query; columns are the
\* columns of the frame (a missing column is a KeyError)
RECURSIVE filter_loop(_, _, _)
filter_loop(df, columns, items) ==
    IF items = <<>> THEN Returned(df, <<>>)
    ELSE IF Head(items).key \notin columns THEN Raised("KeyError")
    ELSE filter_loop(isin(df, Head(items).key, Head(items).val.items), columns, Tail(items))

\* a variant of the two loops that checks each value only when its turn to
\* filter comes
RECURSIVE filter_loop_lazy(_, _, _)
filter_loop_lazy(df, columns, items) ==
    IF items = <<>> THEN Returned(df, <<>>)
    ELSE IF Head(items).val.type # "list" THEN Raised("ValueError")
    ELSE IF Head(items).key \notin columns THEN Raised("KeyError")
    ELSE filter_loop_lazy(isin(df, Head(items).key, Head(items).val.items), columns,
                          Tail(items))

\* _apply_query without the validation loop in front of the filter loop
_apply_query_lazy(query, df) ==
    LET _df == drop(df, {"model ID"})
    IN  IF query = EmptyDict THEN Returned(_df, <<>>)
        ELSE IF query.type # "dict" THEN Raised("TypeError")
        ELSE filter_loop_lazy(_df, modelColumns \ {"model ID"}, query.items)

\* ModelReport._apply_query(query, df)
_apply_query(query, df) ==
    LET _df == drop(df, {"model ID"})
    IN  IF query = EmptyDict THEN Returned(_df, <<>>)
        ELSE IF query.type # "dict" THEN Raised("TypeError")
        ELSE IF \E i \in DOMAIN query.items : query.items[i].val.type # "list"
             THEN Raised("ValueError")
        ELSE filter_loop(_df, modelColumns \ {"model ID"}, query.items)

\* drop, [...], sort_values and reset_index seen as returning the frame they
\* are called on
new_frame_same(obj) == obj

\* the frame object that drop, [...], sort_values and reset_index return when
\* called on the frame object obj: a new frame, never obj itself
new_frame(obj) == "new"

\* the value of self.<attr> after df[label] = ... on the frame object obj:
\* written, the attribute's frame with the column set, when obj is that frame
setitem(attr, obj, old, written) == IF obj = attr THEN written ELSE old

\* the frame a caller passes: self.dfModel or self.latestModels
Frame(name) == IF name = "dfModel" THEN dfModel ELSE latestModels

\* a call of _apply_query(query, df) on a constructed instance, as the show_*
\* methods make it
apply_query(query, df) ==
    /\ pc = "constructed"
    /\ LET r == _apply_query(query, Frame(df))
       IN  /\ call' = "_apply_query"
           /\ args' = <<query, df>>
           /\ err' = r.err
           /\ ret' = r.ret
           /\ printed' = r.printed
           /\ plotted' = <<>>
    /\ UNCHANGED instance

----------------------------------------------------------------------------
(* Calendar heatmap *)

\* Timestamp.date()
Date(t) == t \div TicksPerDay

\* pd.DataFrame()
EmptyDataFrame == [index |-> <<>>, columns |-> <<>>, values |-> <<>>]

\* the difference of two cells, NaN when either is NaN
cell_sub(a, b) == IF a = NaN \/ b = NaN THEN NaN ELSE Val(a[1] - b[1])

\* the difference taken the other way round
day_diff_reversed(row, k) == cell_sub(row[k - 1], row[k])

\* vals[i,2:] - vals[i,1:-1]: the value of a day minus that of the column before
day_diff(row, k) == cell_sub(row[k], row[k - 1])

\* .mask(_df > 0, 1) then .mask(df_sign < 0, -1)
mask_sign(c) == IF c = NaN THEN NaN
                ELSE IF c[1] > 0 THEN Val(1)
                ELSE IF c[1] < 0 THEN Val(-1)
                ELSE c

fillna(c, v) == IF c = NaN THEN v ELSE c[1]

\* ModelReport._create_sign_df(df)
_create_sign_df(df) ==
    [index |-> df.index,
     columns |-> df.columns,
     values |-> [i \in DOMAIN df.values |->
                    [k \in DOMAIN df.columns |->
                        IF k = 1 THEN 1
                        ELSE fillna(mask_sign(day_diff(df.values[i], k)), 1)]]]

\* two rows of df agree on all the keys
has_duplicates(df, keys) ==
    \E i, j \in DOMAIN df : i # j /\ \A k \in keys : df[i][k] = df[j][k]

\* a reindex onto the days that have a row, in the place of the date range
reindex_days_present(df) == df

\* df.set_index('Date').groupby('model name').apply(lambda d: d.reindex(idx_date))
\* ...: one row per model name and per day of pd.date_range(min, max), with
\* NaN responses on the days without a row
reindex_days(df) ==
    LET names == SortedSeq({df[i]["model name"] : i \in DOMAIN df})
        days == {df[i]["Date"] : i \in DOMAIN df}
        idx_date == SortedSeq(SetMin(days)..SetMax(days))
        n == Len(idx_date)
    IN  [r \in 1..(Len(names) * n) |->
            LET name == names[((r - 1) \div n) + 1]
                day == idx_date[((r - 1) % n) + 1]
                hit == {i \in DOMAIN df : df[i]["model name"] = name /\ df[i]["Date"] = day}
            IN  ("model name" :> name) @@ ("Date" :> day) @@
                ("responses" :> IF hit = {} THEN NaN
                                ELSE (df[CHOOSE i \in hit : TRUE]["responses"]))]

\* df.pivot(columns='Date', values='responses', index='model name')
pivot(df) ==
    LET names == SortedSeq({df[i]["model name"] : i \in DOMAIN df})
        days == SortedSeq({df[i]["Date"] : i \in DOMAIN df})
    IN  [index |-> names,
         columns |-> days,
         values |-> [i \in DOMAIN names |->
                        [k \in DOMAIN days |->
                            LET hit == {j \in DOMAIN df : /\ df[j]["model name"] = names[i]
                                                          /\ df[j]["Date"] = days[k]}
                            IN  IF hit = {} THEN NaN
                                ELSE df[CHOOSE j \in hit : TRUE]["responses"]]]]

\* lines 213-228 of generate_heatmap_df on the sorted, re-indexed frame
heatmap_tables(sorted, lookback, fill_null_days) ==
    LET df == [i \in DOMAIN sorted |->
                  ("model name" :> sorted[i]["model name"]) @@
                  ("model snapshot" :> sorted[i]["model snapshot"]) @@
                  ("responses" :> Val(sorted[i]["responses"])) @@
                  ("Date" :> Date(sorted[i]["model snapshot"]))]
    IN  IF df = <<>> THEN Raised("TypeError")  \* max() of no dates is NaN: NaN - timedelta
        ELSE
        LET last == SetMax({df[i]["Date"] : i \in DOMAIN df})
            window == SelectIdx(df, LAMBDA i : df[i]["Date"] > last - lookback, 1)
        IN  IF Len(window) < 1
            THEN Returned([type |-> "DataFrame", value |-> EmptyDataFrame],
                          <<"no data within lookback range">>)
            ELSE
            LET latest == groupby_max_rows(window, {"model name", "Date"}, "model snapshot")
            IN  IF has_duplicates(latest, {"model name", "Date"})
                THEN Raised("ValueError")  \* reindex / pivot on duplicate entries
                ELSE
                LET df_annot == pivot(IF fill_null_days THEN reindex_days(latest) ELSE latest)
                    df_sign == _create_sign_df(df_annot)
                IN  Returned([type |-> "tuple", value |-> <<df_annot, df_sign>>], <<>>)

\* the possible outcomes of ModelReport.generate_heatmap_df
generate_heatmap_df_results(lookback, query, fill_null_days) ==
    LET q == _apply_query(query, dfModel)
    IN  IF q.err # "none" THEN {Raised(q.err)}
        ELSE {heatmap_tables(s, lookback, fill_null_days) :
                s \in sort_values(q.ret[1], "model snapshot")}

\* self.dfModel after line 213, df['Date'] = ..., when the query passed: df
\* is what drop (line 154) and [[...]].sort_values().reset_index() (line 212)
\* made of self.dfModel
dfModel_after_heatmap(query) ==
    IF _apply_query(query, dfModel).err # "none" THEN dfModel
    ELSE setitem("dfModel", new_frame(new_frame("dfModel")), dfModel,
                 [i \in DOMAIN dfModel |->
                     dfModel[i] @@ ("Date" :> Date(dfModel[i]["model snapshot"]))])

\* ModelReport.generate_heatmap_df(lookback, query, fill_null_days)
generate_heatmap_df(lookback, query, fill_null_days) ==
    /\ pc = "constructed"
    /\ \E r \in generate_heatmap_df_results(lookback, query, fill_null_days) :
           /\ call' = "generate_heatmap_df"
           /\ args' = <<lookback, query, fill_null_days>>
           /\ err' = r.err
           /\ ret' = r.ret
           /\ printed' = r.printed
           /\ plotted' = <<>>
    /\ dfModel' = dfModel_after_heatmap(query)
    /\ UNCHANGED <<cls, pc, attrs, modelArgs, predArgs, latestModels, latestPredModel>>

\* ModelReport.show_calendar_heatmap(lookback, fill_null_days, query): the
\* result of generate_heatmap_df is unpacked into two names (iterating a
\* DataFrame yields its column labels) and handed to the plotting library
show_calendar_heatmap(lookback, fill_null_days, query) ==
    /\ pc = "constructed"
    /\ \E r \in generate_heatmap_df_results(lookback, query, fill_null_days) :
           /\ call' = "show_calendar_heatmap"
           /\ args' = <<lookback, query, fill_null_days>>
           /\ printed' = r.printed
           /\ ret' = <<>>
           /\ err' = IF r.err # "none" THEN r.err
                     ELSE IF r.ret[1].type = "tuple" THEN "none"
                     ELSE IF Len(r.ret[1].value.columns) = 2 THEN "none"
                     ELSE "ValueError"
           /\ plotted' = IF r.err = "none" /\ r.ret[1].type = "tuple"
                         THEN <<[kind |-> "heatmap", data |-> r.ret[1].value[2],
                                 annot |-> r.ret[1].value[1]]>>
                         ELSE <<>>
    /\ dfModel' = dfModel_after_heatmap(query)
    /\ UNCHANGED <<cls, pc, attrs, modelArgs, predArgs, latestModels, latestPredModel>>

----------------------------------------------------------------------------
(* Score distribution and predictor report *)

\* the optional argument of a show_* method: None, or a list
None == [type |-> "NoneType", items |-> <<>>]

\* the Classifier rows taken by their entry type
is_classifier_entry(row) == row["entry type"] = Val("Classifier")

\* self.latestPredModel['predictor name']=='Classifier' at a row
is_classifier(row) == row["predictor name"] = Val("Classifier")

\* Series.unique(): the values in the order of their first appearance
unique(df, col) ==
    LET first == SelectIdx(df, LAMBDA i : \A j \in 1..(i - 1) : df[j][col] # df[i][col], 1)
    IN  [i \in DOMAIN first |-> first[i][col]]

\* df.sort_values(by) on a column of cells that are not NaN (not stable)
sort_values_cells(df, by) ==
    {[i \in DOMAIN df |-> df[p[i]]] : p \in
        {q \in Permutations1(Len(df)) :
            \A i \in 1..(Len(df) - 1) : df[q[i]][by][1] <= df[q[i + 1]][by][1]}}

\* the possible calls of the plotting library by distribution_graph(df, title,
\* figsize): the bars of df in the order of the bin index
distribution_graph(df, title) ==
    {[kind |-> "distribution", title |-> title, data |-> df,
      order |-> [i \in DOMAIN sorted |-> sorted[i]["bin symbol"]]] :
        sorted \in sort_values_cells(df, "bin index")}

\* the loop of lines 465-467 over the model names left: the possible sequences
\* of graphs drawn
RECURSIVE score_loop(_, _)
score_loop(df, models) ==
    IF models = <<>> THEN {<<>>}
    ELSE LET model == Head(models)
             _df == SelectIdx(df, LAMBDA i : df[i]["model name"] = model, 1)
         IN  {<<g>> \o rest : g \in distribution_graph(_df, <<model>>),
                              rest \in score_loop(df, Tail(models))}

\* ADMReport.show_score_distribution(models)
show_score_distribution(models) ==
    /\ pc = "constructed"
    /\ cls = "ADMReport"
    /\ LET classifier == SelectIdx(latestPredModel,
                LAMBDA i : is_classifier(latestPredModel[i]), 1)
           df == IF models.items # <<>>
                 THEN SelectIdx(classifier,
                        LAMBDA i : classifier[i]["model name"] \in Range(models.items), 1)
                 ELSE classifier
       IN  \E graphs \in score_loop(df, unique(df, "model name")) :
               plotted' = graphs
    /\ call' = "show_score_distribution"
    /\ args' = <<models>>
    /\ err' = "none"
    /\ ret' = <<>>
    /\ printed' = <<>>
    /\ UNCHANGED instance

\* the loop of lines 510-513 over the predictor names left, after the graphs
\* in drawn: the possible outcomes; the title cannot be built from a missing
\* predictor name (str + float)
RECURSIVE predictor_loop(_, _, _, _)
predictor_loop(df, model_name, preds, drawn) ==
    IF preds = <<>> THEN {[err |-> "none", plotted |-> drawn]}
    ELSE IF Head(preds) = NaN THEN {[err |-> "TypeError", plotted |-> drawn]}
    ELSE LET pred == Head(preds)
             _df == SelectIdx(df, LAMBDA i : df[i]["predictor name"] = pred, 1)
         IN  UNION {predictor_loop(df, model_name, Tail(preds), drawn \o <<g>>) :
                        g \in distribution_graph(_df, <<model_name, pred[1]>>)}

\* ADMReport.show_predictor_report(model_name, predictors)
show_predictor_report(model_name, predictors) ==
    /\ pc = "constructed"
    /\ cls = "ADMReport"
    /\ LET ofModel == SelectIdx(latestPredModel,
                LAMBDA i : /\ latestPredModel[i]["model name"] = model_name
                           /\ ~ is_classifier(latestPredModel[i]), 1)
           df == IF predictors.items # <<>>
                 THEN SelectIdx(ofModel,
                        LAMBDA i : /\ ofModel[i]["predictor name"] # NaN
                                   /\ ofModel[i]["predictor name"][1]
                                          \in Range(predictors.items), 1)
                 ELSE ofModel
       IN  \E r \in predictor_loop(df, model_name, unique(df, "predictor name"), <<>>) :
               /\ err' = r.err
               /\ plotted' = r.plotted
    /\ call' = "show_predictor_report"
    /\ args' = <<model_name, predictors>>
    /\ ret' = <<>>
    /\ printed' = <<>>
    /\ UNCHANGED instance

----------------------------------------------------------------------------
(* Predictor and model orderings *)

\* a <= b for fractions with positive denominators
FracLeq(a, b) == a.num * b.den <= b.num * a.den

\* the sum of the cells of column col that are not NaN, over the rows in rows
RECURSIVE SumCells(_, _, _)
SumCells(df, col, rows) ==
    IF rows = {} THEN 0
    ELSE LET i == CHOOSE x \in rows : TRUE
         IN  (IF df[i][col] = NaN THEN 0 ELSE df[i][col][1]) + SumCells(df, col, rows \ {i})

\* groupby(key)[col].mean().fillna(0) at the group k: the mean skips NaN and
\* is NaN, then 0, for a group without values
mean_fillna0(df, key, col, k) ==
    LET rows == {i \in DOMAIN df : df[i][key] = k /\ df[i][col] # NaN}
    IN  IF rows = {} THEN Frac(0, 1) ELSE Frac(SumCells(df, col, rows), Cardinality(rows))

\* groupby(key)[col].mean().fillna(0).sort_values()[::-1].index over the
\* groups keys: every order of the groups that is descending in the mean (the
\* sort is not stable)
ordering(df, key, col, keys) ==
    {s \in [1..Cardinality(keys) -> keys] :
        /\ \A i, j \in DOMAIN s : i # j => s[i] # s[j]
        /\ \A i \in 1..(Len(s) - 1) :
              FracLeq(mean_fillna0(df, key, col, s[i + 1]), mean_fillna0(df, key, col, s[i]))}

\* str.split('.') on the predictor names of the model
split_dot(name) == IF name = "Customer.Age" THEN <<"Customer", "Age">> ELSE <<name>>

\* self.latestPredModel[self.latestPredModel['predictor name']!='Classifier']
not_classifier ==
    SelectIdx(latestPredModel, LAMBDA i : ~ is_classifier(latestPredModel[i]), 1)

\* the groups of groupby('predictor name'): the names that are not NaN
predictor_groups(df) == {df[i]["predictor name"] : i \in DOMAIN df} \ {NaN}

\* the legend column of line 520
with_legend(df) ==
    [i \in DOMAIN df |->
        df[i] @@ ("legend" :> LET parts == split_dot(df[i]["predictor name"][1])
                              IN  IF Len(parts) > 1 THEN parts[1] ELSE "Primary")]

\* ADMReport.show_predictor_performance_boxplot(); a missing predictor name
\* (a float) has no split
show_predictor_performance_boxplot ==
    /\ pc = "constructed"
    /\ cls = "ADMReport"
    /\ LET _df_g == not_classifier
       IN  IF \E i \in DOMAIN _df_g : _df_g[i]["predictor name"] = NaN
           THEN /\ err' = "AttributeError"
                /\ plotted' = <<>>
                /\ UNCHANGED latestPredModel
           ELSE /\ err' = "none"
                /\ latestPredModel' =
                       setitem("latestPredModel", new_frame(new_frame("latestPredModel")),
                               latestPredModel,
                               with_legend(latestPredModel))
                /\ \E order \in ordering(_df_g, "predictor name", "predictor performance",
                                         predictor_groups(_df_g)) :
                       plotted' = <<[kind |-> "boxplot", data |-> with_legend(_df_g),
                                     order |-> order]>>
    /\ call' = "show_predictor_performance_boxplot"
    /\ args' = <<>>
    /\ ret' = <<>>
    /\ printed' = <<>>
    /\ UNCHANGED <<cls, pc, attrs, modelArgs, predArgs, dfModel, latestModels>>

\* [['model name', 'predictor name', 'predictor performance']].drop_duplicates()
performance_rows ==
    LET three == [i \in DOMAIN not_classifier |->
                    [c \in {"model name", "predictor name", "predictor performance"} |->
                        not_classifier[i][c]]]
    IN  SelectIdx(three, LAMBDA i : \A j \in 1..(i - 1) : three[j] # three[i], 1)

\* ADMReport.show_model_predictor_performance_heatmap(); the pivot raises
\* ValueError when a (model name, predictor name) pair has two performances;
\* the performance is in hundredths, so *100.0 and fillna(50) are as below
show_model_predictor_performance_heatmap ==
    /\ pc = "constructed"
    /\ cls = "ADMReport"
    /\ LET rows == performance_rows
       IN  IF has_duplicates(rows, {"model name", "predictor name"})
           THEN /\ err' = "ValueError"
                /\ plotted' = <<>>
           ELSE /\ err' = "none"
                /\ \E order \in ordering(rows, "predictor name", "predictor performance",
                                         predictor_groups(rows)),
                      x_order \in ordering(rows, "model name", "predictor performance",
                                           {rows[i]["model name"] : i \in DOMAIN rows}) :
                       plotted' =
                         <<[kind |-> "heatmap",
                            data |-> [index |-> x_order,
                                      columns |-> order,
                                      values |-> [i \in DOMAIN x_order |->
                                        [k \in DOMAIN order |->
                                          LET hit == {j \in DOMAIN rows :
                                                        /\ rows[j]["model name"] = x_order[i]
                                                        /\ rows[j]["predictor name"] = order[k]}
                                          IN  IF hit = {} THEN 50 * 100
                                              ELSE rows[CHOOSE j \in hit : TRUE]
                                                       ["predictor performance"][1] * 100]]]]>>
    /\ call' = "show_model_predictor_performance_heatmap"
    /\ args' = <<>>
    /\ ret' = <<>>
    /\ printed' = <<>>
    /\ UNCHANGED instance

----------------------------------------------------------------------------
(* Inputs *)

\* all sequences of length 0..n over the set S
SeqsUpTo(S, n) == UNION {[1..k -> S] : k \in 0..n}

Column(t, c) == [i \in DOMAIN t |-> t[i][c]]

\* a with its last element removed when short holds
Shorten(a, short) == IF short /\ Len(a) > 0 THEN SubSeq(a, 1, Len(a) - 1) ELSE a

\* the state before the constructor runs: the six model arrays are the columns
\* of table t and the ten predictor arrays the columns of table pt, the arrays
\* named in S one element shorter
InitInstance(c, t, pt, S) ==
    /\ cls = c
    /\ pc = "new"
    /\ attrs = {}
    /\ modelID = Shorten(Column(t, "model ID"), "modelID" \in S)
    /\ modelName = Shorten(Column(t, "model name"), "modelName" \in S)
    /\ positives = Shorten(Column(t, "positives"), "positives" \in S)
    /\ responses = Shorten(Column(t, "responses"), "responses" \in S)
    /\ modelAUC = Shorten(Column(t, "model performance"), "modelAUC" \in S)
    /\ modelSnapshot = Shorten(Column(t, "model snapshot"), "modelSnapshot" \in S)
    /\ predModelID = Shorten(Column(pt, "model ID"), "predModelID" \in S)
    /\ predName = Shorten(Column(pt, "predictor name"), "predName" \in S)
    /\ predPerformance = Shorten(Column(pt, "predictor performance"), "predPerformance" \in S)
    /\ binSymbol = Shorten(Column(pt, "bin symbol"), "binSymbol" \in S)
    /\ binIndex = Shorten(Column(pt, "bin index"), "binIndex" \in S)
    /\ entryType = Shorten(Column(pt, "entry type"), "entryType" \in S)
    /\ predictorType = Shorten(Column(pt, "predictor type"), "predictorType" \in S)
    /\ predSnapshot = Shorten(Column(pt, "predictor snapshot"), "predSnapshot" \in S)
    /\ binPositives = Shorten(Column(pt, "bin positives"), "binPositives" \in S)
    /\ binResponses = Shorten(Column(pt, "bin responses"), "binResponses" \in S)
    /\ dfModel = <<>> /\ latestModels = <<>> /\ latestPredModel = <<>>
    /\ call = "none" /\ args = <<>> /\ err = "none" /\ ret = <<>> /\ printed = <<>>
    /\ plotted = <<>>

InitModelReport(t, S) == InitInstance("ModelReport", t, <<>>, S)

\* a row of the predictor arrays; the bin symbol and the entry type follow
\* the bin index and the predictor name
PredRow(id, name, idx, pos, resp, snap) ==
    (predCols[1] :> id) @@ (predCols[2] :> name) @@ (predCols[3] :> 55) @@
    (predCols[4] :> idx) @@ (predCols[5] :> idx) @@
    (predCols[6] :> (IF name = "Classifier" THEN "Classifier" ELSE "Active")) @@
    (predCols[7] :> "numeric") @@ (predCols[8] :> pos) @@
    (predCols[9] :> resp) @@ (predCols[10] :> snap)

ModelRow(id, name, pos, resp, auc, snap) ==
    (cols[1] :> id) @@ (cols[2] :> name) @@ (cols[3] :> pos) @@
    (cols[4] :> resp) @@ (cols[5] :> auc) @@ (cols[6] :> snap)

\* the example of the constructor's docstring; 2019-01-01, 2019-02-01 and
\* 2019-03-01 are days 0, 31 and 59, the performance is in hundredths
DocExample ==
    <<ModelRow(1, 1, 1, 100, 60, 0),
      ModelRow(1, 1, 2, 110, 70, 31 * TicksPerDay),
      ModelRow(3, 3, 7, 200, 73, 59 * TicksPerDay)>>

\* records that differ in name and timestamp
LatestPool == {ModelRow(n, n, 1, 10, 60, t) : n \in 1..NumNames, t \in 0..MaxTime}

\* arrays of the same length, and arrays of which some are one element shorter
InitShape ==
    \/ \E t \in SeqsUpTo({ModelRow(1, 1, 1, 10, 60, 0), ModelRow(2, 2, 0, 0, 70, 1)}, MaxRows),
          S \in SUBSET modelAttrs :
           InitModelReport(t, S)
    \/ \E t \in SeqsUpTo({ModelRow(1, 1, 1, 10, 60, 0)}, MaxRows),
          pt \in SeqsUpTo({PredRow(1, "Classifier", 1, 1, 10, 0)}, MaxRows),
          S \in {{}, {"modelSnapshot"}, {"predName"}, {"binResponses"}} :
           InitInstance("ADMReport", t, pt, S)

NextShape == ModelReport_init \/ ADMReport_init

SpecShape == InitShape /\ [][NextShape]_vars

InitLatest ==
    \E t \in SeqsUpTo(LatestPool, MaxRows) \cup {DocExample} :
        InitModelReport(t, {})

NextLatest == ModelReport_init

SpecLatest == InitLatest /\ [][NextLatest]_vars

\* records that differ in positives and responses (responses may be <= 0)
RatePool == {ModelRow(1, 1, p, r, 60, 0) : p \in 0..MaxPositives, r \in (-1)..MaxResponses}

RatePredPool == {PredRow(1, "Classifier", 1, p, r, 0) :
                    p \in 0..MaxPositives, r \in (-1)..MaxResponses}

\* a ModelReport over records of varying counts, or an ADMReport over two
\* fixed model records and predictor bins of varying counts
InitRate ==
    \/ \E t \in SeqsUpTo(RatePool, RateRows) : InitModelReport(t, {})
    \/ \E pt \in SeqsUpTo(RatePredPool, RateRows) :
           InitInstance("ADMReport",
                        <<ModelRow(1, 1, 0, 0, 60, 0), ModelRow(2, 2, 1, 2, 60, 0)>>, pt, {})

NextRate == ModelReport_init \/ ADMReport_init

SpecRate == InitRate /\ [][NextRate]_vars

\* model records of two models at two times
PredModelPool == {ModelRow(n, n, 1, 10 + t, 60 + t, t) : n \in {1, 2}, t \in {0, 1}}

\* predictor records of model 1, the classifier with one bin and a predictor
\* with two bins, at two times; and one of a model (3) without model record
PredPool ==
    {PredRow(1, b[1], b[2], 1, 10, t) :
        b \in {<<"Classifier", 1>>, <<"Age", 1>>, <<"Age", 2>>}, t \in {0, 1}}
    \cup {PredRow(3, "Classifier", 1, 1, 10, 0)}

InitPred ==
    \E t \in SeqsUpTo(PredModelPool, PredModelRows), pt \in SeqsUpTo(PredPool, MaxPredRows) :
        InitInstance("ADMReport", t, pt, {})

NextPred == ADMReport_init

SpecPred == InitPred /\ [][NextPred]_vars

\* query values: a list of permitted values, or a plain string
QList(v) == [type |-> "list", items |-> v]

QStr == [type |-> "str", items |-> <<>>]

QueryEntries ==
    {[key |-> "model name", val |-> QList(<<1>>)],
     [key |-> "model name", val |-> QStr],
     [key |-> "responses", val |-> QList(<<1, 2>>)],
     [key |-> "model ID", val |-> QList(<<1>>)]}

\* the dicts of at most two entries (keys are unique), and a query that is
\* not a dict
Queries ==
    {[type |-> "dict", items |-> q] :
        q \in {x \in SeqsUpTo(QueryEntries, 2) :
                \A i, j \in DOMAIN x : i # j => x[i].key # x[j].key}}
    \cup {[type |-> "list", items |-> <<>>]}

QueryPool == {ModelRow(n, n, 1, r, 60, 0) : n \in {1, 2}, r \in {0, 1, 2}}

InitQuery == \E t \in SeqsUpTo(QueryPool, QueryRows) : InitModelReport(t, {})

NextQuery ==
    \/ ModelReport_init
    \/ \E query \in Queries, df \in {"dfModel", "latestModels"} : apply_query(query, df)

SpecQuery == InitQuery /\ [][NextQuery]_vars

HeatPool == {ModelRow(n, n, 1, r, 60, t) : n \in {1, 2}, r \in {0, 1, 2}, t \in {0, 1, 2, 4}}

RowKey(r) == (r["model name"] * 100 + r["model snapshot"]) * 100 + r["responses"]

\* tables of three records: two days of one model beside one day of another,
\* and three days of one model
HeatExamples ==
    {<<ModelRow(1, 1, 1, 2, 60, 0), ModelRow(1, 1, 1, 1, 60, 2), ModelRow(2, 2, 1, 0, 60, 2)>>,
     <<ModelRow(1, 1, 1, 1, 60, 0), ModelRow(1, 1, 1, 1, 60, 2), ModelRow(1, 1, 1, 2, 60, 4)>>}

\* the heatmap does not depend on the order of the records: one order per
\* collection of records is drawn
InitHeatmap ==
    \E t \in {x \in SeqsUpTo(HeatPool, HeatRows) :
                \A i \in 1..(Len(x) - 1) : RowKey(x[i]) <= RowKey(x[i + 1])}
             \cup HeatExamples :
        InitModelReport(t, {})

HeatQueries ==
    {EmptyDict,
     [type |-> "dict", items |-> <<[key |-> "model name", val |-> QList(<<1>>)]>>]}

\* one call on every constructed instance
NextHeatmap ==
    \/ ModelReport_init
    \/ /\ call = "__init__"
       /\ \E lookback \in 0..MaxLookback, query \in HeatQueries, fill_null_days \in BOOLEAN :
             generate_heatmap_df(lookback, query, fill_null_days)

SpecHeatmap == InitHeatmap /\ [][NextHeatmap]_vars

CalendarPool == {ModelRow(n, n, 1, r, 60, t) : n \in {1, 2}, r \in {1, 2}, t \in {0, 2}}

InitCalendar ==
    \E t \in {x \in SeqsUpTo(CalendarPool, HeatRows) :
                \A i \in 1..(Len(x) - 1) : RowKey(x[i]) <= RowKey(x[i + 1])}
             \cup HeatExamples :
        InitModelReport(t, {})

CalendarQueries ==
    HeatQueries \cup {[type |-> "dict", items |-> <<[key |-> "model name", val |-> QStr]>>]}

\* any sequence of calls
NextCalendar ==
    \/ ModelReport_init
    \/ \E lookback \in 0..MaxLookback, query \in CalendarQueries, fill_null_days \in BOOLEAN :
          \/ generate_heatmap_df(lookback, query, fill_null_days)
          \/ show_calendar_heatmap(lookback, fill_null_days, query)

SpecCalendar == InitCalendar /\ [][NextCalendar]_vars

\* records of two models at two times that differ in their positives, so
\* that records of one model with the same snapshot time can be told apart
TiePool == {ModelRow(n, n, p, 10, 60, t) : n \in {1, 2}, p \in {0, 1}, t \in {0, 1}}

InitTies == \E t \in SeqsUpTo(TiePool, MaxRows) : InitModelReport(t, {})

NextTies == ModelReport_init

SpecTies == InitTies /\ [][NextTies]_vars

\* a row of the predictor arrays with its own entry type and performance
PredRecord(id, name, etype, perf, idx) ==
    (predCols[1] :> id) @@ (predCols[2] :> name) @@ (predCols[3] :> perf) @@
    (predCols[4] :> idx) @@ (predCols[5] :> idx) @@ (predCols[6] :> etype) @@
    (predCols[7] :> "numeric") @@ (predCols[8] :> 1) @@
    (predCols[9] :> 10) @@ (predCols[10] :> 0)

\* model tables: one model, two snapshots of one model on two days, two
\* models, and two model IDs of one model name
CallModelTables ==
    {<<ModelRow(1, 1, 1, 10, 60, 0)>>,
     <<ModelRow(1, 1, 1, 10, 60, 0), ModelRow(1, 1, 1, 11, 61, 2)>>,
     <<ModelRow(1, 1, 1, 10, 60, 0), ModelRow(2, 2, 1, 10, 60, 0)>>,
     <<ModelRow(1, 1, 1, 10, 60, 0), ModelRow(2, 1, 1, 12, 62, 2)>>}

\* predictor rows whose entry type follows the predictor name and rows where
\* it does not, a predictor of two bins with two performances, a predictor
\* with a source prefix, and a predictor of model 2
CallPredPool ==
    {PredRecord(1, "Classifier", "Classifier", 55, 1),
     PredRecord(1, "Classifier", "Active", 55, 2),
     PredRecord(1, "Age", "Classifier", 60, 1),
     PredRecord(1, "Age", "Active", 65, 2),
     PredRecord(1, "Customer.Age", "Active", 50, 1),
     PredRecord(2, "Age", "Active", 70, 1)}

Init ==
    \E t \in CallModelTables, pt \in SeqsUpTo(CallPredPool, 2) :
        InitInstance("ADMReport", t, pt, {})

CallQueries ==
    {EmptyDict,
     [type |-> "dict", items |-> <<[key |-> "model name", val |-> QList(<<1>>)]>>],
     [type |-> "dict", items |-> <<[key |-> "model name", val |-> QStr]>>]}

\* any sequence of calls on the instance
Next ==
    \/ ADMReport_init
    \/ \E query \in CallQueries, df \in {"dfModel", "latestModels"} : apply_query(query, df)
    \/ \E lookback \in {0, 2}, query \in CallQueries, fill_null_days \in BOOLEAN :
          \/ generate_heatmap_df(lookback, query, fill_null_days)
          \/ show_calendar_heatmap(lookback, fill_null_days, query)
    \/ \E models \in {None, QList(<<>>), QList(<<1>>)} : show_score_distribution(models)
    \/ \E model_name \in {1, 2}, predictors \in {None, QList(<<"Age">>)} :
          show_predictor_report(model_name, predictors)
    \/ show_predictor_performance_boxplot
    \/ show_model_predictor_performance_heatmap

Spec == Init /\ [][Next]_vars

----------------------------------------------------------------------------
(* Construction: shape check and the latest view *)

SameLength == \A i, j \in 1..6 : Len(modelArgs[i]) = Len(modelArgs[j])

\* exactly one of the six arrays is one element shorter than the other five
OneShorter ==
    \E i \in 1..6 : \A j \in (1..6) \ {i} : Len(modelArgs[j]) = Len(modelArgs[i]) + 1

NoTableBuilt ==
    /\ attrs \cap {"dfModel", "latestModels", "latestPredModel"} = {}
    /\ dfModel = <<>> /\ latestModels = <<>>

\* C1: the constructor succeeds when the six arrays have the same length;
\* when one of them is one element shorter it raises the shape error
\* (TypeError) and neither dfModel nor latestModels has been built.
C1_ShapeCheck ==
    pc # "new" =>
        /\ SameLength =>
              /\ {"dfModel", "latestModels"} \subseteq attrs
              /\ Len(dfModel) = Len(modelID)
              /\ cls = "ModelReport" => (pc = "constructed" /\ err = "none")
        /\ OneShorter =>
              /\ pc = "raised" /\ err = "TypeError"
              /\ NoTableBuilt

C1_Witness ==
    /\ cls = "ModelReport"
    /\ pc = "raised" /\ OneShorter
    /\ Len(modelSnapshot) + 1 = Len(modelID)

NamesOf(df) == {df[i]["model name"] : i \in DOMAIN df}

\* C2: latestModels holds exactly one row per model name of dfModel, that row
\* is a row of dfModel, and its snapshot is not older than any dfModel row of
\* the same name; the docstring example yields the rows of 2019-02-01 (model1)
\* and 2019-03-01 (model3).
C2_LatestPerModel ==
    pc = "constructed" =>
        /\ NamesOf(latestModels) = NamesOf(dfModel)
        /\ \A n \in NamesOf(dfModel) :
              Cardinality({i \in DOMAIN latestModels : latestModels[i]["model name"] = n}) = 1
        /\ \A i \in DOMAIN latestModels :
              /\ latestModels[i] \in Range(dfModel)
              /\ \A j \in DOMAIN dfModel :
                    dfModel[j]["model name"] = latestModels[i]["model name"]
                        => latestModels[i]["model snapshot"] >= dfModel[j]["model snapshot"]
        /\ from_dict = DocExample =>
              {<<r["model name"], r["model snapshot"], r["positives"], r["responses"]>> :
                    r \in Range(latestModels)}
                = {<<1, 31 * TicksPerDay, 2, 110>>, <<3, 59 * TicksPerDay, 7, 200>>}

\* a model whose newest snapshot is not its last row in the input
C2_Witness ==
    /\ pc = "constructed"
    /\ \E i, j \in DOMAIN dfModel :
          /\ i < j
          /\ dfModel[i]["model name"] = dfModel[j]["model name"]
          /\ dfModel[i]["model snapshot"] > dfModel[j]["model snapshot"]
          /\ dfModel[i] \in Range(latestModels)

----------------------------------------------------------------------------
(* Derived rates *)

\* the fraction x is 0 when r <= 0 and is exactly 100 p / r when r > 0
RateIs(p, r, x) ==
    /\ r <= 0 => (x.num = 0 /\ x.den = 1)
    /\ r > 0 => (x.den > 0 /\ x.num * r = p * 100 * x.den)

\* C3: in every row of dfModel and of latestModels the success rate is 0 when
\* responses <= 0 and exactly positives*100/responses otherwise; the bin
\* propensity of every predictor row follows the same rule from bin positives
\* and bin responses.
C3_SuccessRate ==
    pc = "constructed" =>
        /\ \A r \in Range(dfModel) \cup Range(latestModels) :
              RateIs(r["positives"], r["responses"], r["success rate (%)"])
        /\ \A r \in Range(latestPredModel) :
              r["bin responses"] # NaN =>
                  RateIs(r["bin positives"][1], r["bin responses"][1],
                         r["bin propensity"][1])

\* a record with positives = 0 and responses = 0, a record whose rate is not a
\* whole number, and a predictor row with responses
C3_Witness ==
    /\ pc = "constructed"
    /\ \E r \in Range(dfModel) : r["positives"] = 0 /\ r["responses"] = 0
    /\ \E r \in Range(latestModels) : r["success rate (%)"].num = 50
    /\ \E r \in Range(latestPredModel) :
          r["bin responses"] # NaN /\ r["bin propensity"][1].num = 100

----------------------------------------------------------------------------
(* The predictor view *)

ModelIDs == Range(modelID)

\* the predictor input rows that carry the newest snapshot of their
\* (model ID, predictor name) group
LatestPredRows(id) ==
    {k \in DOMAIN predModelID :
        /\ predModelID[k] = id
        /\ \A j \in DOMAIN predModelID :
              (predModelID[j] = id /\ predName[j] = predName[k])
                  => predSnapshot[j] <= predSnapshot[k]}

\* the distinct (model ID, predictor name) pairs whose model ID has a model record
MatchedPairs ==
    {<<predModelID[k], predName[k]>> : k \in {j \in DOMAIN predModelID : predModelID[j] \in ModelIDs}}

RECURSIVE SumOver(_, _)
SumOver(f, D) == IF D = {} THEN 0
                 ELSE LET d == CHOOSE x \in D : TRUE IN f[d] + SumOver(f, D \ {d})

\* the predictor columns of row r are those of predictor input row k
CarriesPred(r, k) ==
    /\ r["predictor name"] = Val(predName[k])
    /\ r["bin index"] = Val(binIndex[k])
    /\ r["bin positives"] = Val(binPositives[k])
    /\ r["bin responses"] = Val(binResponses[k])
    /\ r["entry type"] = Val(entryType[k])

\* the model columns of row r are those of model record m
CarriesModel(r, m) ==
    \A c \in {"model name", "positives", "responses", "model performance",
              "model snapshot", "success rate (%)"} : r[c] = m[c]

\* C9 as stated: latestPredModel has one row per distinct (model ID,
\* predictor name) pair of the predictor input whose model ID has a model record.
C9_RowsArePairs ==
    (pc = "constructed" /\ cls = "ADMReport") =>
        Len(latestPredModel) = Cardinality(MatchedPairs)

\* C9 amended: latestPredModel has, for every dfModel record, one row per
\* predictor input row of that model ID that carries the newest snapshot of
\* its (model ID, predictor name) group (one row per bin), and one row without
\* predictor values when there is none; every row with predictor values joins
\* a dfModel record with a predictor row of the same model ID, so predictor
\* rows whose model ID matches no model record do not appear.
C9_RowsPerRecordAndBin ==
    (pc = "constructed" /\ cls = "ADMReport") =>
        /\ Len(latestPredModel)
             = SumOver([i \in DOMAIN modelID |->
                          IF LatestPredRows(modelID[i]) = {} THEN 1
                          ELSE Cardinality(LatestPredRows(modelID[i]))],
                       DOMAIN modelID)
        /\ \A r \in Range(latestPredModel) :
              r["predictor name"] # NaN =>
                  \E i \in DOMAIN dfModel, k \in DOMAIN predModelID :
                      /\ predModelID[k] = modelID[i]
                      /\ k \in LatestPredRows(modelID[i])
                      /\ CarriesModel(r, dfModel[i])
                      /\ CarriesPred(r, k)

\* a model record with a predictor row, a model record without predictor row,
\* and a predictor row without model record
C9_Witness ==
    /\ pc = "constructed" /\ cls = "ADMReport"
    /\ \E i \in DOMAIN modelID : LatestPredRows(modelID[i]) # {}
    /\ \E i \in DOMAIN modelID : LatestPredRows(modelID[i]) = {}
    /\ \E k \in DOMAIN predModelID : predModelID[k] \notin ModelIDs

\* C10 as stated: every row of latestPredModel carries the model fields of a
\* latestModels record, and its predictor fields are those of a predictor row
\* with the newest snapshot of its (model ID, predictor name) group.
C10_JoinedOntoLatest ==
    (pc = "constructed" /\ cls = "ADMReport") =>
        \A r \in Range(latestPredModel) :
            /\ \E m \in Range(latestModels) : CarriesModel(r, m)
            /\ r["predictor name"] # NaN =>
                  \E k \in DOMAIN predModelID :
                      k \in LatestPredRows(predModelID[k]) /\ CarriesPred(r, k)

----------------------------------------------------------------------------
(* Queries *)

\* every value of the dict is a list
ListValued(q) ==
    q.type = "dict" /\ \A i \in DOMAIN q.items : q.items[i].val.type = "list"

\* a non-empty dict with a value that is not a list
HasNonList(q) ==
    q.type = "dict" /\ \E i \in DOMAIN q.items : q.items[i].val.type # "list"

\* row r of the collection meets every constraint of the list-valued dict q
Matches(r, q) ==
    \A i \in DOMAIN q.items : r[q.items[i].key] \in Range(q.items[i].val.items)

\* the rows of T that meet every constraint of q, in their order, without the
\* model ID column
Matching(q, T) ==
    LET keep == SelectIdx(T, LAMBDA i : Matches(T[i], q), 1)
    IN  [i \in DOMAIN keep |-> [c \in modelColumns \ {"model ID"} |-> keep[i][c]]]

\* C4 as stated: for every collection and every dict whose values are lists,
\* _apply_query returns exactly the rows that meet all the column constraints,
\* in their order and without the model ID column (all the rows for {}).
C4_FilterAllConstraints ==
    (call = "_apply_query" /\ ListValued(args[1])) =>
        /\ err = "none"
        /\ ret = <<Matching(args[1], Frame(args[2]))>>

\* no key of q names the model ID column
NoIDKey(q) == \A i \in DOMAIN q.items : q.items[i].key # "model ID"

\* C5: a call of _apply_query with a non-empty dict that has a value which is
\* not a list ends with the filter error (ValueError) at whatever position
\* the value is, returns nothing and leaves the instance as it was; the valid
\* query that follows a failed one returns its normal result.
C5_InvalidFilter ==
    [][call' = "_apply_query" =>
          /\ HasNonList(args'[1]) =>
                (err' = "ValueError" /\ ret' = <<>> /\ UNCHANGED instance)
          /\ (/\ call = "_apply_query" /\ err = "ValueError"
              /\ ListValued(args'[1]) /\ NoIDKey(args'[1])) =>
                (/\ err' = "none"
                 /\ ret' = <<Matching(args'[1], Frame(args'[2]))>>)]_vars

\* the value that is not a list comes second, after a constraint that some
\* rows of the collection meet and some do not
C5_Witness ==
    /\ call = "_apply_query" /\ err = "ValueError"
    /\ Len(args[1].items) = 2
    /\ args[1].items[1].val.type = "list"
    /\ args[1].items[2].val.type # "list"
    /\ \E r1, r2 \in Range(Frame(args[2])) :
          /\ r1[args[1].items[1].key] \in Range(args[1].items[1].val.items)
          /\ r2[args[1].items[1].key] \notin Range(args[1].items[1].val.items)

----------------------------------------------------------------------------
(* Calendar heatmap *)

DatesOf(df) == {Date(df[i]["model snapshot"]) : i \in DOMAIN df}

IsTuple == err = "none" /\ ret # <<>> /\ ret[1].type = "tuple"

df_annot == ret[1].value[1]

df_sign == ret[1].value[2]

\* C6 as stated: generate_heatmap_df with lookback 0 on records that share
\* one calendar date returns an annotation table of one column and a sign
\* table whose only column is +1 in every row.
C6_LookbackZeroSingleDate ==
    (/\ call = "generate_heatmap_df" /\ args[1] = 0 /\ args[2] = EmptyDict
     /\ Cardinality(DatesOf(dfModel)) = 1) =>
        /\ IsTuple
        /\ Len(df_annot.columns) = 1
        /\ Len(df_sign.columns) = 1
        /\ \A i \in DOMAIN df_sign.values : df_sign.values[i] = <<1>>

\* the records the query selects, and whether the lookback window holds none
Selected(q) == {r \in Range(dfModel) : Matches(r, q)}

WindowIsEmpty(lookback, q) ==
    /\ ListValued(q) /\ NoIDKey(q)
    /\ Selected(q) # {}
    /\ \A r \in Selected(q) :
          ~ (Date(r["model snapshot"])
                > SetMax({Date(x["model snapshot"]) : x \in Selected(q)}) - lookback)

\* C7 as stated: when the lookback window holds no record, generate_heatmap_df
\* reports 'no data' and returns an empty result without raising, and
\* show_calendar_heatmap, which unpacks that result, ends without an error.
C7_NoDataIsNotFatal ==
    (call \in {"generate_heatmap_df", "show_calendar_heatmap"}
        /\ WindowIsEmpty(args[1], args[2])) =>
        /\ err = "none"
        /\ printed = <<"no data within lookback range">>
        /\ call = "generate_heatmap_df" =>
              ret = <<[type |-> "DataFrame", value |-> EmptyDataFrame]>>

Sgn(n) == IF n > 0 THEN 1 ELSE IF n < 0 THEN -1 ELSE 0

----------------------------------------------------------------------------
(* Calls on a constructed instance *)

\* C11: no call on a constructed instance (_apply_query, generate_heatmap_df,
\* show_calendar_heatmap, show_score_distribution, show_predictor_report, the
\* two orderings), whatever its arguments and whether it returns, raises or
\* reports 'no data', changes dfModel, latestModels or latestPredModel or the
\* set of attributes: they stay as the constructor left them.
C11_TablesUnchanged ==
    [][pc = "constructed" => (tables' = tables /\ attrs' = attrs /\ pc' = pc)]_vars

\* the boxplot call has set its legend column, on a frame that is not
\* latestPredModel, after the constructor built tables with rows
C11_Witness ==
    /\ call = "show_predictor_performance_boxplot" /\ err = "none"
    /\ plotted[1].data # <<>>
    /\ \A r \in Range(plotted[1].data) : "legend" \in DOMAIN r
    /\ latestPredModel # <<>>
    /\ \A r \in Range(latestPredModel) : "legend" \notin DOMAIN r
    /\ \A r \in Range(dfModel) : "Date" \notin DOMAIN r

----------------------------------------------------------------------------
(* The collapse to one record per model and day *)

\* the records of dfModel that query q selects and the lookback window keeps
InWindow(lookback, q) ==
    IF ~ (ListValued(q) /\ NoIDKey(q)) \/ Selected(q) = {} THEN {}
    ELSE {r \in Selected(q) :
            Date(r["model snapshot"])
                > SetMax({Date(x["model snapshot"]) : x \in Selected(q)}) - lookback}

\* the in-window records of the model name and day of r
SamePair(r, W) ==
    {x \in W : /\ x["model name"] = r["model name"]
               /\ Date(x["model snapshot"]) = Date(r["model snapshot"])}

\* the annotation table a has, for the model and the day of r, the responses
\* of a record of that pair with the newest snapshot
CellOfPair(a, r, W) ==
    \E i \in DOMAIN a.index, k \in DOMAIN a.columns :
        /\ a.index[i] = r["model name"]
        /\ a.columns[k] = Date(r["model snapshot"])
        /\ \E x \in SamePair(r, W) :
              /\ \A y \in SamePair(r, W) : y["model snapshot"] <= x["model snapshot"]
              /\ a.values[i][k] = Val(x["responses"])

\* C12 as stated: whenever the lookback window holds records, also records of
\* one model with the same snapshot time, generate_heatmap_df returns its
\* tables, and the annotation table has for every (model name, date) pair of
\* the window one cell, with the responses of a newest record of the pair.
C12_OneRecordPerCell ==
    (call = "generate_heatmap_df" /\ InWindow(args[1], args[2]) # {}) =>
        /\ IsTuple
        /\ \A r \in InWindow(args[1], args[2]) :
              CellOfPair(df_annot, r, InWindow(args[1], args[2]))

----------------------------------------------------------------------------
(* Records that share the newest snapshot time *)

\* the positions in dfModel of the records of name n with n's newest snapshot
Tied(n) ==
    {i \in DOMAIN dfModel :
        /\ dfModel[i]["model name"] = n
        /\ \A j \in DOMAIN dfModel :
              dfModel[j]["model name"] = n
                  => dfModel[j]["model snapshot"] <= dfModel[i]["model snapshot"]}

\* the rows of latestModels for name n
KeptOf(n) == {r \in Range(latestModels) : r["model name"] = n}

\* C13 as stated: when several dfModel records of a name share the name's
\* newest snapshot time, latestModels keeps the one that comes last in the
\* input order.
C13_LastInInputWins ==
    pc = "constructed" =>
        \A n \in NamesOf(dfModel) :
            Cardinality(Tied(n)) > 1 => KeptOf(n) = {dfModel[SetMax(Tied(n))]}

\* C13 amended: when several dfModel records of a name share the name's
\* newest snapshot time, latestModels keeps exactly one record of that name
\* and it is one of those records; the input order does not decide which.
C13_OneOfTheTied ==
    pc = "constructed" =>
        \A n \in NamesOf(dfModel) :
            Cardinality(Tied(n)) > 1 =>
                /\ Cardinality({i \in DOMAIN latestModels :
                                    latestModels[i]["model name"] = n}) = 1
                /\ KeptOf(n) \subseteq {dfModel[i] : i \in Tied(n)}

\* two records with the newest snapshot time of their name, that differ, come
\* after an older record of the name, and the first of the two is kept
C13_Witness ==
    /\ pc = "constructed"
    /\ \E i, j, k \in DOMAIN dfModel :
          /\ k < i /\ i < j /\ {i, j} = Tied(dfModel[i]["model name"])
          /\ dfModel[k]["model name"] = dfModel[i]["model name"]
          /\ dfModel[i] # dfModel[j]
          /\ KeptOf(dfModel[i]["model name"]) = {dfModel[i]}

----------------------------------------------------------------------------
(* Days without a snapshot *)

WindowDays(W) == {Date(r["model snapshot"]) : r \in W}

\* C14: the annotation table that generate_heatmap_df returns with
\* fill_null_days=True has as columns all the days from the first to the last
\* day of the lookback window, ascending and without a gap; the row of a
\* model holds the responses of the model's newest record of the day where it
\* has one and NaN on every other day; its rows are the rows of the table
\* returned with fill_null_days=False.
C14_FillNullDays ==
    (call = "generate_heatmap_df" /\ args[3] = TRUE /\ IsTuple) =>
        LET W == InWindow(args[1], args[2])
        IN  /\ W # {}
            /\ df_annot.columns = SortedSeq(SetMin(WindowDays(W))..SetMax(WindowDays(W)))
            /\ df_annot.index = SortedSeq({r["model name"] : r \in W})
            /\ \A r \in W : CellOfPair(df_annot, r, W)
            /\ \A i \in DOMAIN df_annot.index, k \in DOMAIN df_annot.columns :
                  (~ \E r \in W : /\ r["model name"] = df_annot.index[i]
                                  /\ Date(r["model snapshot"]) = df_annot.columns[k])
                      => df_annot.values[i][k] = NaN
            /\ \A r \in generate_heatmap_df_results(args[1], args[2], FALSE) :
                  /\ r.err = "none"
                  /\ r.ret[1].type = "tuple"
                  /\ r.ret[1].value[1].index = df_annot.index

\* two models, and a day between the first and the last on which neither has
\* a snapshot
C14_Witness ==
    /\ call = "generate_heatmap_df" /\ args[3] = TRUE /\ IsTuple
    /\ Len(df_annot.index) = 2
    /\ \E k \in DOMAIN df_annot.columns :
          /\ 1 < k /\ k < Len(df_annot.columns)
          /\ \A i \in DOMAIN df_annot.index : df_annot.values[i][k] = NaN
    /\ \A i \in DOMAIN df_annot.index : \E k \in DOMAIN df_annot.columns :
          df_annot.values[i][k] # NaN

----------------------------------------------------------------------------
(* Score distribution and predictor report *)

\* the rows of df grouped by column col, the groups in the order of their
\* first row
GroupedBy(df, col) ==
    LET keys == unique(df, col)
    IN  [k \in DOMAIN keys |-> SelectIdx(df, LAMBDA i : df[i][col] = keys[k], 1)]

\* the rows each graph of the last call was drawn from
Rendered == [k \in DOMAIN plotted |-> plotted[k].data]

\* the rows of latestPredModel whose column col says Classifier, of the
\* models of the list when it is not empty
ClassifierRows(col, models) ==
    SelectIdx(latestPredModel,
        LAMBDA i : /\ latestPredModel[i][col] = Val("Classifier")
                   /\ models.items # <<>> =>
                         latestPredModel[i]["model name"] \in Range(models.items), 1)

\* the rows of latestPredModel of the model whose column col does not say
\* Classifier, of the predictors of the list when it is not empty
PredictorRows(col, model_name, predictors) ==
    SelectIdx(latestPredModel,
        LAMBDA i : /\ latestPredModel[i]["model name"] = model_name
                   /\ latestPredModel[i][col] # Val("Classifier")
                   /\ predictors.items # <<>> =>
                         /\ latestPredModel[i]["predictor name"] # NaN
                         /\ latestPredModel[i]["predictor name"][1]
                                \in Range(predictors.items), 1)

\* C15 as stated: show_score_distribution draws one graph per model name from
\* exactly the latestPredModel rows whose entry type is Classifier (of the
\* listed models when a list is given); show_predictor_report draws, for the
\* given model, exactly its rows whose entry type is not Classifier, one graph
\* per predictor.
C15_SelectsByEntryType ==
    /\ call = "show_score_distribution" =>
          /\ err = "none"
          /\ Rendered = GroupedBy(ClassifierRows("entry type", args[1]), "model name")
    /\ call = "show_predictor_report" =>
          /\ err = "none"
          /\ Rendered = GroupedBy(PredictorRows("entry type", args[1], args[2]),
                                  "predictor name")

\* the number of groups in front of the first group without predictor name
RECURSIVE NamedPrefix(_)
NamedPrefix(keys) ==
    IF keys = <<>> \/ Head(keys) = NaN THEN 0 ELSE 1 + NamedPrefix(Tail(keys))

\* C15 amended: show_score_distribution draws one graph per model name, in
\* the order of first appearance, from exactly the latestPredModel rows whose
\* predictor name is Classifier (of the listed models when the list is not
\* empty), whatever their entry type. show_predictor_report draws, for the
\* given model, one graph per predictor name from its rows whose predictor
\* name is not Classifier (of the listed predictors when the list is not
\* empty); when it comes to a row without predictor values (a model record
\* without predictor rows) it raises TypeError, having drawn the predictors
\* in front of it.
C15_SelectsByPredictorName ==
    /\ call = "show_score_distribution" =>
          /\ err = "none"
          /\ Rendered = GroupedBy(ClassifierRows("predictor name", args[1]), "model name")
          /\ \A k \in DOMAIN plotted : plotted[k].title = <<plotted[k].data[1]["model name"]>>
    /\ call = "show_predictor_report" =>
          LET groups == GroupedBy(PredictorRows("predictor name", args[1], args[2]),
                                  "predictor name")
              keys == unique(PredictorRows("predictor name", args[1], args[2]),
                             "predictor name")
              n == NamedPrefix(keys)
          IN  /\ Rendered = SubSeq(groups, 1, n)
              /\ err = IF n < Len(keys) THEN "TypeError" ELSE "none"

\* a score distribution, for a list of models, of an instance that has a row
\* named Classifier whose entry type is not Classifier and a row of entry type
\* Classifier that is not named Classifier
C15_Witness ==
    /\ call = "show_score_distribution" /\ args[1].items # <<>>
    /\ plotted # <<>>
    /\ \E r \in Range(latestPredModel) :
          r["predictor name"] = Val("Classifier") /\ r["entry type"] # Val("Classifier")
    /\ \E r \in Range(latestPredModel) :
          r["predictor name"] # Val("Classifier") /\ r["entry type"] = Val("Classifier")

====
